---- MODULE Spec2Model ----
(***************************************************************************)
(* Model of pkg/tls/tls.go: the key / certificate-signing-request builder  *)
(* (CertificateGenerateRequest, GenerateInClusterServiceName) and the      *)
(* certificate expiry check (IsTLSPairShouldBeUpdated).                    *)
(*                                                                         *)
(* A Go string is a sequence of one-character strings, so concatenation    *)
(* is \o and net.ParseIP is computed character by character.  Time is      *)
(* counted in hours (time.Hour is the unit), a time.Time is the number of  *)
(* hours since the start of the run.                                       *)
(***************************************************************************)
EXTENDS Integers, Sequences, FiniteSets, TLC

VARIABLES
    privateKey,   \* CertificateGenerateRequest: argument privateKey
    props,        \* CertificateGenerateRequest: argument props (TlsCertificateProps)
    fqdncn,       \* CertificateGenerateRequest: argument fqdncn
    csr,          \* CertificateGenerateRequest: first result (NilRequest when nil)
    err,          \* CertificateGenerateRequest: second result is a non-nil error
    pc,           \* "start" before the call, "done" after it returned
    tlsPair,      \* the pair the caller holds and hands to IsTLSPairShouldBeUpdated
    now,          \* the wall clock, in hours
    called,       \* IsTLSPairShouldBeUpdated has returned for the current tlsPair
    result,       \* what the last call of IsTLSPairShouldBeUpdated returned
    readAt,       \* the value time.Now() gave that call
    op,           \* concurrent callers: the function each caller invokes
    arg,          \* concurrent callers: the inputs each caller passes
    arg0,         \* concurrent callers: a copy of the inputs as first passed
    cpc,          \* concurrent callers: each caller's position in its function
    loc,          \* concurrent callers: each invocation's local variables
    dnsHeap,      \* concurrent callers: the backing arrays of the dnsNames slices
    ret           \* concurrent callers: what each invocation returned

vars == <<privateKey, props, fqdncn, csr, err, pc, tlsPair, now, called, result,
          readAt, op, arg, arg0, cpc, loc, dnsHeap, ret>>

csrVars == <<privateKey, props, fqdncn, csr, err, pc>>
expVars == <<tlsPair, now, called, result, readAt>>
conVars == <<op, arg, arg0, cpc, loc, dnsHeap, ret>>

Range(s) == {s[i] : i \in 1..Len(s)}

\* Strings of length n over the alphabet A, and those of length at most n.
RECURSIVE StringsOfLen(_, _)
StringsOfLen(A, n) ==
    IF n = 0 THEN {<<>>}
    ELSE {<<c>> \o s : c \in A, s \in StringsOfLen(A, n - 1)}

StringsUpTo(A, n) == UNION {StringsOfLen(A, k) : k \in 0..n}

(***************************************************************************)
(* net.ParseIP (Go standard library), as tls.go line 69 uses it.           *)
(***************************************************************************)
DecDigits == <<"0", "1", "2", "3", "4", "5", "6", "7", "8", "9">>
HexLower == <<"a", "b", "c", "d", "e", "f">>
HexUpper == <<"A", "B", "C", "D", "E", "F">>

IsDigit(c) == \E i \in 1..10 : DecDigits[i] = c
DigitVal(c) == (CHOOSE i \in 1..10 : DecDigits[i] = c) - 1

IsHex(c) ==
    \/ IsDigit(c)
    \/ \E i \in 1..6 : HexLower[i] = c \/ HexUpper[i] = c
HexVal(c) ==
    IF IsDigit(c) THEN DigitVal(c)
    ELSE 9 + (CHOOSE i \in 1..6 : HexLower[i] = c \/ HexUpper[i] = c)

\* 0xFFFFFF, the "big" of the parser: a number that large stops the scan.
Big == 256 * 256 * 256 - 1

Drop(s, n) == SubSeq(s, n + 1, Len(s))

\* dtoi: the decimal number s starts with; c is the number of characters used.
RECURSIVE dtoi(_, _, _)
dtoi(s, c, n) ==
    IF c < Len(s) /\ IsDigit(s[c + 1])
    THEN LET m == n * 10 + DigitVal(s[c + 1])
         IN  IF m >= Big THEN [n |-> Big, c |-> c, ok |-> FALSE]
             ELSE dtoi(s, c + 1, m)
    ELSE IF c = 0 THEN [n |-> 0, c |-> 0, ok |-> FALSE]
    ELSE [n |-> n, c |-> c, ok |-> TRUE]

\* xtoi: the same for a hexadecimal number.
RECURSIVE xtoi(_, _, _)
xtoi(s, c, n) ==
    IF c < Len(s) /\ IsHex(s[c + 1])
    THEN LET m == n * 16 + HexVal(s[c + 1])
         IN  IF m >= Big THEN [n |-> 0, c |-> c, ok |-> FALSE]
             ELSE xtoi(s, c + 1, m)
    ELSE IF c = 0 THEN [n |-> 0, c |-> 0, ok |-> FALSE]
    ELSE [n |-> n, c |-> c, ok |-> TRUE]

NilIP == <<>>
Zeros(n) == [i \in 1..n |-> 0]

\* net.IPv4(a, b, c, d): the 16-byte form, the address after the v4-in-v6 prefix.
IPv4(p) == Zeros(10) \o <<255, 255>> \o p

\* parseIPv4: four decimal fields of at most 255, separated by dots.
RECURSIVE parseIPv4(_, _, _)
parseIPv4(s, i, p) ==
    IF i = 4 THEN (IF Len(s) # 0 THEN NilIP ELSE IPv4(p))
    ELSE IF Len(s) = 0 THEN NilIP
    ELSE IF i > 0 /\ s[1] # "." THEN NilIP
    ELSE LET t == IF i > 0 THEN Tail(s) ELSE s
             d == dtoi(t, 0, 0)
         IN  IF ~d.ok \/ d.n > 255 THEN NilIP
             ELSE parseIPv4(Drop(t, d.c), i + 1, Append(p, d.n))

\* The end of parseIPv6: the bytes read so far, expanded around the "::".
ExpandIPv6(s, ip, ellipsis) ==
    LET i == Len(ip)
    IN  IF Len(s) # 0 THEN NilIP
        ELSE IF i < 16
             THEN IF ellipsis < 0 THEN NilIP
                  ELSE SubSeq(ip, 1, ellipsis) \o Zeros(16 - i)
                           \o SubSeq(ip, ellipsis + 1, i)
        ELSE IF ellipsis >= 0 THEN NilIP
        ELSE ip

\* The loop of parseIPv6: ip holds the bytes read so far (i = Len(ip)).
RECURSIVE parseIPv6Loop(_, _, _)
parseIPv6Loop(s, ip, ellipsis) ==
    LET i == Len(ip)
        x == xtoi(s, 0, 0)
    IN  IF i >= 16 THEN ExpandIPv6(s, ip, ellipsis)
        ELSE IF ~x.ok \/ x.n > 65535 THEN NilIP
        ELSE IF x.c < Len(s) /\ s[x.c + 1] = "."
             THEN \* a trailing IPv4 address
                  IF ellipsis < 0 /\ i # 12 THEN NilIP
                  ELSE IF i + 4 > 16 THEN NilIP
                  ELSE LET ip4 == parseIPv4(s, 0, <<>>)
                       IN  IF ip4 = NilIP THEN NilIP
                           ELSE ExpandIPv6(<<>>, ip \o SubSeq(ip4, 13, 16), ellipsis)
        ELSE LET ip2 == ip \o <<x.n \div 256, x.n % 256>>
                 s2 == Drop(s, x.c)
             IN  IF Len(s2) = 0 THEN ExpandIPv6(s2, ip2, ellipsis)
                 ELSE IF s2[1] # ":" \/ Len(s2) = 1 THEN NilIP
                 ELSE LET s3 == Tail(s2)
                      IN  IF s3[1] = ":"
                          THEN IF ellipsis >= 0 THEN NilIP
                               ELSE IF Len(s3) = 1
                                    THEN ExpandIPv6(<<>>, ip2, Len(ip2))
                                    ELSE parseIPv6Loop(Tail(s3), ip2, Len(ip2))
                          ELSE parseIPv6Loop(s3, ip2, ellipsis)

parseIPv6(s) ==
    IF Len(s) >= 2 /\ s[1] = ":" /\ s[2] = ":"
    THEN IF Len(s) = 2 THEN Zeros(16)
         ELSE parseIPv6Loop(Drop(s, 2), <<>>, 0)
    ELSE parseIPv6Loop(s, <<>>, -1)

\* ParseIP: the first "." or ":" of s decides which parser reads s.
RECURSIVE ParseIPFrom(_, _)
ParseIPFrom(s, i) ==
    IF i > Len(s) THEN NilIP
    ELSE IF s[i] = "." THEN parseIPv4(s, 0, <<>>)
    ELSE IF s[i] = ":" THEN parseIPv6(s)
    ELSE ParseIPFrom(s, i + 1)

ParseIP(s) == ParseIPFrom(s, 1)

(***************************************************************************)
(* encoding/pem and crypto/x509 (Go standard library), as tls.go uses      *)
(* them.  A PEM text is a sequence of lines; the DER bytes a block carries *)
(* are kept as the structure they encode.                                  *)
(***************************************************************************)
NoBytes == [form |-> "none"]

BeginLine(type) == [kind |-> "begin", type |-> type, bytes |-> NoBytes]
EndLine(type) == [kind |-> "end", type |-> type, bytes |-> NoBytes]
DataLine(bytes) == [kind |-> "data", type |-> "", bytes |-> bytes]
TextLine == [kind |-> "text", type |-> "", bytes |-> NoBytes]

\* pem.EncodeToMemory: the block framed by its BEGIN and END lines.
EncodeToMemory(block) ==
    <<BeginLine(block.Type), DataLine(block.Bytes), EndLine(block.Type)>>

NilBlock == [Type |-> "", Bytes |-> NoBytes, ok |-> FALSE]

\* pem.Decode: the first well-formed block of data; what precedes it, and a
\* BEGIN line that no matching END line closes, is skipped.
RECURSIVE Decode(_)
Decode(data) ==
    IF Len(data) = 0 THEN NilBlock
    ELSE IF data[1].kind # "begin" THEN Decode(Tail(data))
    ELSE IF Len(data) >= 2 /\ data[2].kind = "end" /\ data[2].type = data[1].type
         THEN [Type |-> data[1].type, Bytes |-> NoBytes, ok |-> TRUE]
    ELSE IF /\ Len(data) >= 3
            /\ data[2].kind = "data"
            /\ data[3].kind = "end"
            /\ data[3].type = data[1].type
         THEN [Type |-> data[1].type, Bytes |-> data[2].bytes, ok |-> TRUE]
    ELSE Decode(Tail(data))

\* x509.CreateCertificateRequest: the DER of the request that template and key give.
CreateCertificateRequest(template, key) ==
    [form |-> "csr", Subject |-> template.Subject,
     SignatureAlgorithm |-> template.SignatureAlgorithm,
     DNSNames |-> template.DNSNames, IPAddresses |-> template.IPAddresses,
     PublicKey |-> key]

\* x509.MarshalPKCS1PrivateKey
MarshalPKCS1PrivateKey(key) == [form |-> "rsakey", key |-> key]

\* The DER of a certificate whose validity ends at notAfter.
CertificateDER(notAfter) == [form |-> "cert", NotAfter |-> notAfter]

\* x509.ParseCertificate: the certificate, or an error for bytes that are none.
ParseCertificate(bytes) ==
    IF bytes.form = "cert" THEN [NotAfter |-> bytes.NotAfter, err |-> FALSE]
    ELSE [NotAfter |-> 0, err |-> TRUE]

(***************************************************************************)
(* tls.go: the key and the signing request.                                *)
(***************************************************************************)
Dot == <<".">>
SvcSuffix == <<".", "s", "v", "c">>
CertRequestSuffix ==
    <<".", "c", "e", "r", "t", "-", "r", "e", "q", "u", "e", "s", "t">>

TLSPrivateKeyToPem(rsaKey) ==
    EncodeToMemory([Type |-> "PRIVATE KEY", Bytes |-> MarshalPKCS1PrivateKey(rsaKey)])

certificateRequestToPem(csrRaw) ==
    EncodeToMemory([Type |-> "CERTIFICATE REQUEST", Bytes |-> csrRaw])

GenerateInClusterServiceName(p) == p.Service \o Dot \o p.Namespace \o SvcSuffix

\* Mutant: line 59 left out, dnsNames[1] stays the empty string of make.
BaseDnsNamesSkipsNamespaced(p) ==
    <<p.Service, <<>>, GenerateInClusterServiceName(p)>>

\* dnsNames as lines 57 to 62 fill it.
BaseDnsNames(p) ==
    <<p.Service, p.Service \o Dot \o p.Namespace, GenerateInClusterServiceName(p)>>

\* Mutant: the fqdncn branch of lines 64 to 67 left out.
CsCommonNameIgnoresFlag(p, f) == p.Service

\* Mutant: the test of line 64 inverted.
CsCommonNameInverted(p, f) ==
    IF ~f THEN GenerateInClusterServiceName(p) ELSE p.Service

\* csCommonName, lines 63 to 67.
CsCommonName(p, f) ==
    IF f THEN GenerateInClusterServiceName(p) ELSE p.Service

\* ips after lines 68 to 74.
IPAddresses(p) ==
    LET apiServerIP == ParseIP(p.ApiServerHost)
    IN  IF apiServerIP # NilIP THEN <<apiServerIP>> ELSE <<>>

\* Mutant: line 73 outside the else, the host is appended whatever it is.
DNSNamesAlwaysAppends(p) == Append(BaseDnsNames(p), p.ApiServerHost)

\* dnsNames after lines 68 to 74.
DNSNames(p) ==
    LET apiServerIP == ParseIP(p.ApiServerHost)
    IN  IF apiServerIP # NilIP THEN BaseDnsNames(p)
        ELSE Append(BaseDnsNames(p), p.ApiServerHost)

\* csrTemplate, lines 76 to 83.
CsrTemplate(p, f) ==
    [Subject |-> [CommonName |-> CsCommonName(p, f)],
     SignatureAlgorithm |-> "SHA256WithRSA",
     DNSNames |-> DNSNames(p),
     IPAddresses |-> IPAddresses(p)]

RequestGroups == <<"system:masters", "system:authenticated">>
RequestUsages == <<"digital signature", "key encipherment", "server auth", "client auth">>

\* Mutant: the name of the service in place of the name of the request.
RequestNameIsServiceName(p) == GenerateInClusterServiceName(p)

RequestName(p) == p.Service \o Dot \o p.Namespace \o CertRequestSuffix

\* The object lines 90 to 108 return around csrBytes.
SigningRequest(p, csrBytes) ==
    [APIVersion |-> "certificates.k8s.io/v1beta1",
     Kind |-> "CertificateSigningRequest",
     Name |-> RequestName(p),
     Request |-> certificateRequestToPem(csrBytes),
     Groups |-> RequestGroups,
     Usages |-> RequestUsages]

\* What CertificateGenerateRequest returns when x509 builds the request.
CertificateGenerateRequest(key, p, f) ==
    SigningRequest(p, CreateCertificateRequest(CsrTemplate(p, f), key))

NilRequest ==
    [APIVersion |-> "", Kind |-> "", Name |-> <<>>, Request |-> <<>>,
     Groups |-> <<>>, Usages |-> <<>>]

(***************************************************************************)
(* The inputs of the builder.                                              *)
(***************************************************************************)
MaxHostLen == 4
Chars == {"1", ":", ".", "s"}

SampleHosts ==
    { <<"1", "0", ".", "0", ".", "0", ".", "1">>,
      <<"1", ".", "1", ".", "1", ".", "1">>,
      <<"2", "5", "6", ".", "0", ".", "0", ".", "1">>,
      <<"1", "0", ".", "0", ".", "0">>,
      <<":", ":", "f", "f", "f", "f", ":", "1", ".", "1", ".", "1", ".", "1">>,
      <<"f", "e", "8", "0", ":", ":", "1">>,
      <<"k", "8", "s", ".", "i", "o">>,
      <<"w", "e", "b", "h", "o", "o", "k">>,
      <<"w", ".", "k">>,
      <<"w", ".", "k", ".", "s", "v", "c">> }

Hosts == StringsUpTo(Chars, MaxHostLen) \cup SampleHosts

\* Service and Namespace are never empty (the identity's invariant).
Services ==
    { <<"w">>, <<"1">>, <<":", ":">>,
      <<"1", ".", "1", ".", "1", ".", "1">>,
      <<"w", "e", "b", "h", "o", "o", "k">> }

Namespaces == { <<"k">>, <<"1", ".", "1", ".", "1">>, <<"k", "u", "b", "e">> }

Keys == {"key1", "key2"}

Props == [Service : Services, Namespace : Namespaces, ApiServerHost : Hosts]

\* The template the returned request carries, read back from its PEM block.
RequestTemplate(r) == Decode(r.Request).Bytes

(***************************************************************************)
(* Spec: one call of CertificateGenerateRequest on inputs drawn in Init.   *)
(***************************************************************************)
NoCallers == <<>>

NilPair == [nil |-> TRUE, Certificate |-> <<>>, PrivateKey |-> <<>>]

\* The variables of the expiry check and of the concurrent callers, unused.
ExpiryIdle ==
    /\ tlsPair = NilPair
    /\ now = 0 /\ called = FALSE /\ result = FALSE /\ readAt = 0

CallersIdle ==
    /\ op = NoCallers /\ arg = NoCallers /\ arg0 = NoCallers /\ cpc = NoCallers
    /\ loc = NoCallers /\ dnsHeap = NoCallers /\ ret = NoCallers

Init ==
    /\ privateKey \in Keys
    /\ props \in Props
    /\ fqdncn \in BOOLEAN
    /\ csr = NilRequest
    /\ err = FALSE
    /\ pc = "start"
    /\ ExpiryIdle
    /\ CallersIdle

\* Line 85 succeeds: the request is built and returned (lines 57 to 108).
GenerateRequest ==
    /\ pc = "start"
    /\ csr' = CertificateGenerateRequest(privateKey, props, fqdncn)
    /\ err' = FALSE
    /\ pc' = "done"
    /\ UNCHANGED <<privateKey, props, fqdncn, expVars, conVars>>

\* Line 85 fails: lines 86 to 88 return nil and the error.
GenerateRequestFails ==
    /\ pc = "start"
    /\ csr' = NilRequest
    /\ err' = TRUE
    /\ pc' = "done"
    /\ UNCHANGED <<privateKey, props, fqdncn, expVars, conVars>>

Next == GenerateRequest \/ GenerateRequestFails

Spec == Init /\ [][Next]_vars

Returned == pc = "done" /\ ~err

(***************************************************************************)
(* tls.go: the expiry check.                                               *)
(***************************************************************************)
Hour == 1
Days(d) == d * 24 * Hour

\* The largest time.Duration (2^63 - 1 nanoseconds), in whole hours.
MaxDuration == 2562047 * Hour

\* Time.Sub: t - u, or the largest or smallest Duration when that overflows.
Sub(t, u) ==
    IF t - u > MaxDuration THEN MaxDuration
    ELSE IF t - u < -MaxDuration THEN -MaxDuration
    ELSE t - u

\* Line 132.
timeReserveBeforeCertificateExpiration == Hour * 24 * 30 * 6

\* tlsCertificateGetExpirationDate, lines 117 to 128.
tlsCertificateGetExpirationDate(certData) ==
    LET block == Decode(certData)
    IN  IF ~block.ok THEN [date |-> 0, err |-> TRUE]
        ELSE LET cert == ParseCertificate(block.Bytes)
             IN  IF cert.err THEN [date |-> 0, err |-> TRUE]
                 ELSE [date |-> cert.NotAfter, err |-> FALSE]

\* Mutant: <= in place of < in line 145.
WithinReserveInclusive(expirationDate, t) ==
    Sub(expirationDate, t) <= timeReserveBeforeCertificateExpiration

\* Mutant: > in place of < in line 145.
WithinReserveInverted(expirationDate, t) ==
    Sub(expirationDate, t) > timeReserveBeforeCertificateExpiration

\* Line 145, t being what time.Now() returns.
WithinReserve(expirationDate, t) ==
    Sub(expirationDate, t) < timeReserveBeforeCertificateExpiration

\* Mutant: the error of line 140 taken for "nothing to do".
IsTLSPairShouldBeUpdatedKeepsOnError(pair, t) ==
    IF pair.nil THEN TRUE
    ELSE LET e == tlsCertificateGetExpirationDate(pair.Certificate)
         IN  IF e.err THEN FALSE ELSE WithinReserve(e.date, t)

\* IsTLSPairShouldBeUpdated, lines 135 to 146, called when the clock shows t.
IsTLSPairShouldBeUpdated(pair, t) ==
    IF pair.nil THEN TRUE
    ELSE LET e == tlsCertificateGetExpirationDate(pair.Certificate)
         IN  IF e.err THEN TRUE ELSE WithinReserve(e.date, t)

(***************************************************************************)
(* The inputs of the expiry check.                                         *)
(***************************************************************************)
MaxNow == 2

\* Ends of validity: long expired, around the reserve at every hour the clock
\* shows, and further away than a Duration can tell.
NotAfters ==
    {Days(d) + k : d \in {100, 179, 180, 181, 200}, k \in 0..MaxNow}
        \cup {0, Days(180) - 1, 2 * MaxDuration}

BlockTypes == {"CERTIFICATE", "CERTIFICATE REQUEST", "PRIVATE KEY"}

CertificatePem(notAfter) ==
    EncodeToMemory([Type |-> "CERTIFICATE", Bytes |-> CertificateDER(notAfter)])

Certificates ==
    {EncodeToMemory([Type |-> type, Bytes |-> CertificateDER(n)]) :
         type \in BlockTypes, n \in NotAfters}
    \cup
    { <<>>,
      <<TextLine>>,
      <<TextLine>> \o CertificatePem(Days(200)),
      <<TextLine>> \o CertificatePem(Days(100)),
      CertificatePem(Days(200)) \o <<TextLine>>,
      <<BeginLine("CERTIFICATE"), DataLine(CertificateDER(Days(200)))>>,
      <<BeginLine("CERTIFICATE"), DataLine(CertificateDER(Days(200))),
        EndLine("PRIVATE KEY")>>,
      <<BeginLine("CERTIFICATE"), EndLine("CERTIFICATE")>>,
      EncodeToMemory([Type |-> "CERTIFICATE", Bytes |-> [form |-> "garbage"]]),
      EncodeToMemory([Type |-> "CERTIFICATE",
                      Bytes |-> MarshalPKCS1PrivateKey("key1")]),
      TLSPrivateKeyToPem("key1"),
      TLSPrivateKeyToPem("key1") \o CertificatePem(Days(200)),
      <<BeginLine("PRIVATE KEY")>> \o CertificatePem(Days(200)) }

PrivateKeyPems == {<<>>, TLSPrivateKeyToPem("key1")}

Pairs ==
    {NilPair} \cup
    [nil : {FALSE}, Certificate : Certificates, PrivateKey : PrivateKeyPems]

(***************************************************************************)
(* SpecExpiry: a caller that holds a pair, asks IsTLSPairShouldBeUpdated   *)
(* about it as time passes, and replaces it.                               *)
(***************************************************************************)
BuilderIdle ==
    /\ privateKey = "key1"
    /\ props = [Service |-> <<"w">>, Namespace |-> <<"k">>, ApiServerHost |-> <<>>]
    /\ fqdncn = FALSE /\ csr = NilRequest /\ err = FALSE /\ pc = "idle"

InitExpiry ==
    /\ tlsPair \in Pairs
    /\ now = 0
    /\ called = FALSE
    /\ result = FALSE
    /\ readAt = 0
    /\ BuilderIdle
    /\ CallersIdle

\* Time passes; the clock does not move backwards.
Tick ==
    /\ now < MaxNow
    /\ now' = now + 1
    /\ UNCHANGED <<tlsPair, called, result, readAt, csrVars, conVars>>

\* A call of IsTLSPairShouldBeUpdated(tlsPair).
CheckPair ==
    /\ result' = IsTLSPairShouldBeUpdated(tlsPair, now)
    /\ readAt' = now
    /\ called' = TRUE
    /\ UNCHANGED <<tlsPair, now, csrVars, conVars>>

\* The caller replaces the pair with another one.
ReplacePair ==
    /\ \E p \in Pairs \ {tlsPair} : tlsPair' = p
    /\ called' = FALSE
    /\ result' = FALSE
    /\ readAt' = 0
    /\ UNCHANGED <<now, csrVars, conVars>>

NextExpiry == Tick \/ CheckPair \/ ReplacePair

SpecExpiry == InitExpiry /\ [][NextExpiry]_vars

(***************************************************************************)
(* SpecCallers: callers that invoke the four exported functions at the     *)
(* same time, each on its own inputs.  An invocation is a sequence of      *)
(* steps named after the line each starts at; the steps of different       *)
(* invocations interleave.  dnsHeap holds the backing array of each        *)
(* invocation's dnsNames slice, the clock is the one thing they share.     *)
(***************************************************************************)
NumCallers == 2
Callers == 1..NumCallers

ConcRequests ==
    { [key |-> "key1", fqdncn |-> FALSE,
       props |-> [Service |-> <<"w">>, Namespace |-> <<"k">>,
                  ApiServerHost |-> <<":", ":", "1">>]],
      [key |-> "key2", fqdncn |-> TRUE,
       props |-> [Service |-> <<"1">>, Namespace |-> <<"k">>,
                  ApiServerHost |-> <<"s">>]] }

ConcPairs ==
    { NilPair,
      [nil |-> FALSE, Certificate |-> <<TextLine>>, PrivateKey |-> <<>>],
      [nil |-> FALSE, Certificate |-> CertificatePem(Days(180) + 1),
       PrivateKey |-> TLSPrivateKeyToPem("key1")] }

NoArg ==
    [key |-> "key1", fqdncn |-> FALSE,
     props |-> [Service |-> <<>>, Namespace |-> <<>>, ApiServerHost |-> <<>>],
     pair |-> NilPair]

\* The calls a caller may make: the function and its inputs.
Calls ==
    {[op |-> "TLSGeneratePrivateKey", arg |-> NoArg, at |-> "L32"]}
    \cup {[op |-> "TLSPrivateKeyToPem", arg |-> [NoArg EXCEPT !.key = k], at |-> "L37"] :
              k \in Keys}
    \cup {[op |-> "CertificateGenerateRequest",
           arg |-> [NoArg EXCEPT !.key = r.key, !.fqdncn = r.fqdncn, !.props = r.props],
           at |-> "L57"] : r \in ConcRequests}
    \cup {[op |-> "IsTLSPairShouldBeUpdated", arg |-> [NoArg EXCEPT !.pair = q],
           at |-> "L136"] : q \in ConcPairs}

NoLocals ==
    [slot |-> 0, csCommonName |-> <<>>, ips |-> <<>>, csrBytes |-> NoBytes,
     block |-> NoBytes, expirationDate |-> 0, t |-> 0]

NoResult ==
    [key |-> "", pem |-> <<>>, csr |-> NilRequest, err |-> FALSE, should |-> FALSE]

InitCallers ==
    /\ \E call \in [Callers -> Calls] :
          /\ op = [c \in Callers |-> call[c].op]
          /\ arg = [c \in Callers |-> call[c].arg]
          /\ arg0 = [c \in Callers |-> call[c].arg]
          /\ cpc = [c \in Callers |-> call[c].at]
    /\ loc = [c \in Callers |-> NoLocals]
    /\ dnsHeap = [c \in Callers |-> <<>>]
    /\ ret = [c \in Callers |-> NoResult]
    /\ BuilderIdle
    /\ ExpiryIdle

\* What no invocation touches: the variables of the other two specifications.
heldVars == <<tlsPair, called, result, readAt, csrVars>>

Goto(c, label) == cpc' = [cpc EXCEPT ![c] = label]
Return(c, field, value) ==
    /\ ret' = [ret EXCEPT ![c] = [NoResult EXCEPT ![field] = value]]
    /\ Goto(c, "done")

\* Mutant: dnsNames kept in one package-level array in place of line 57's make.
DnsSlotShared(c) == 1

\* The backing array that make gives the invocation of caller c in line 57.
DnsSlot(c) == c

\* TLSGeneratePrivateKey, line 32: a key from the random source.
GenerateKey(c) ==
    /\ cpc[c] = "L32"
    /\ \E k \in Keys : Return(c, "key", k)
    /\ UNCHANGED <<heldVars, arg, arg0, op, loc, dnsHeap, now>>

\* TLSPrivateKeyToPem, lines 37 to 40: the block.
KeyBlock(c) ==
    /\ cpc[c] = "L37"
    /\ loc' = [loc EXCEPT ![c].block =
                   [Type |-> "PRIVATE KEY", Bytes |-> MarshalPKCS1PrivateKey(arg[c].key)]]
    /\ Goto(c, "L42")
    /\ UNCHANGED <<heldVars, arg, arg0, op, ret, dnsHeap, now>>

\* TLSPrivateKeyToPem, line 42.
KeyEncode(c) ==
    /\ cpc[c] = "L42"
    /\ Return(c, "pem", EncodeToMemory(loc[c].block))
    /\ UNCHANGED <<heldVars, arg, arg0, op, loc, dnsHeap, now>>

\* CertificateGenerateRequest, lines 57 to 62: dnsNames made and filled.
FillDnsNames(c) ==
    /\ cpc[c] = "L57"
    /\ loc' = [loc EXCEPT ![c].slot = DnsSlot(c)]
    /\ dnsHeap' = [dnsHeap EXCEPT ![DnsSlot(c)] =
                       <<arg[c].props.Service,
                         arg[c].props.Service \o Dot \o arg[c].props.Namespace,
                         GenerateInClusterServiceName(arg[c].props)>>]
    /\ Goto(c, "L63")
    /\ UNCHANGED <<heldVars, arg, arg0, op, ret, now>>

\* Lines 63 to 67: csCommonName.
ChooseCommonName(c) ==
    /\ cpc[c] = "L63"
    /\ loc' = [loc EXCEPT ![c].csCommonName =
                   IF arg[c].fqdncn THEN dnsHeap[loc[c].slot][3]
                   ELSE arg[c].props.Service]
    /\ Goto(c, "L68")
    /\ UNCHANGED <<heldVars, arg, arg0, op, ret, dnsHeap, now>>

\* Lines 68 to 74: the host goes to ips or to dnsNames.
PlaceHost(c) ==
    /\ cpc[c] = "L68"
    /\ LET apiServerIP == ParseIP(arg[c].props.ApiServerHost)
       IN  IF apiServerIP # NilIP
           THEN /\ loc' = [loc EXCEPT ![c].ips = <<apiServerIP>>]
                /\ UNCHANGED dnsHeap
           ELSE /\ dnsHeap' = [dnsHeap EXCEPT ![loc[c].slot] =
                                   Append(@, arg[c].props.ApiServerHost)]
                /\ UNCHANGED loc
    /\ Goto(c, "L76")
    /\ UNCHANGED <<heldVars, arg, arg0, op, ret, now>>

\* Lines 76 to 85, the request is built.
CreateRequest(c) ==
    /\ cpc[c] = "L76"
    /\ loc' = [loc EXCEPT ![c].csrBytes =
                   CreateCertificateRequest(
                       [Subject |-> [CommonName |-> loc[c].csCommonName],
                        SignatureAlgorithm |-> "SHA256WithRSA",
                        DNSNames |-> dnsHeap[loc[c].slot],
                        IPAddresses |-> loc[c].ips],
                       arg[c].key)]
    /\ Goto(c, "L90")
    /\ UNCHANGED <<heldVars, arg, arg0, op, ret, dnsHeap, now>>

\* Lines 76 to 88, the request is not built: nil and the error.
CreateRequestFails(c) ==
    /\ cpc[c] = "L76"
    /\ Return(c, "err", TRUE)
    /\ UNCHANGED <<heldVars, arg, arg0, op, loc, dnsHeap, now>>

\* Lines 90 to 108.
ReturnRequest(c) ==
    /\ cpc[c] = "L90"
    /\ Return(c, "csr", SigningRequest(arg[c].props, loc[c].csrBytes))
    /\ UNCHANGED <<heldVars, arg, arg0, op, loc, dnsHeap, now>>

\* IsTLSPairShouldBeUpdated, lines 136 to 138.
CheckNil(c) ==
    /\ cpc[c] = "L136"
    /\ IF arg[c].pair.nil THEN Return(c, "should", TRUE)
       ELSE Goto(c, "L140") /\ UNCHANGED ret
    /\ UNCHANGED <<heldVars, arg, arg0, op, loc, dnsHeap, now>>

\* Lines 140 to 143.
GetExpirationDate(c) ==
    /\ cpc[c] = "L140"
    /\ LET e == tlsCertificateGetExpirationDate(arg[c].pair.Certificate)
       IN  IF e.err THEN Return(c, "should", TRUE) /\ UNCHANGED loc
           ELSE /\ loc' = [loc EXCEPT ![c].expirationDate = e.date]
                /\ Goto(c, "L145")
                /\ UNCHANGED ret
    /\ UNCHANGED <<heldVars, arg, arg0, op, dnsHeap, now>>

\* Line 145: time.Now() is read and compared.
CompareWithNow(c) ==
    /\ cpc[c] = "L145"
    /\ loc' = [loc EXCEPT ![c].t = now]
    /\ Return(c, "should", WithinReserve(loc[c].expirationDate, now))
    /\ UNCHANGED <<heldVars, arg, arg0, op, dnsHeap, now>>

\* Time passes while the callers run.
TickCallers ==
    /\ now < MaxNow
    /\ now' = now + 1
    /\ UNCHANGED <<tlsPair, called, result, readAt, csrVars, conVars>>

NextCallers ==
    \/ TickCallers
    \/ \E c \in Callers :
          \/ GenerateKey(c)
          \/ KeyBlock(c)
          \/ KeyEncode(c)
          \/ FillDnsNames(c)
          \/ ChooseCommonName(c)
          \/ PlaceHost(c)
          \/ CreateRequest(c)
          \/ CreateRequestFails(c)
          \/ ReturnRequest(c)
          \/ CheckNil(c)
          \/ GetExpirationDate(c)
          \/ CompareWithNow(c)

SpecCallers == InitCallers /\ [][NextCallers]_vars

(***************************************************************************)
(* The signing request: claims C1, C2, C3, C7, C8.                         *)
(***************************************************************************)
HostIsIP == ParseIP(props.ApiServerHost) # NilIP
BuiltDNS == Range(RequestTemplate(csr).DNSNames)
BuiltIPs == Range(RequestTemplate(csr).IPAddresses)
ServiceDotNamespace == props.Service \o <<".">> \o props.Namespace
FullServiceName == props.Service \o <<".">> \o props.Namespace \o <<".", "s", "v", "c">>

\* C1 as stated: a host that is an IP literal is among the IP SANs and not
\* among the DNS SANs; any other host is among the DNS SANs and there is no
\* IP SAN; for every Service, Namespace and ApiServerHost.
C1_HostInOneSanSetOnly ==
    Returned =>
        /\ HostIsIP =>
              /\ ParseIP(props.ApiServerHost) \in BuiltIPs
              /\ props.ApiServerHost \notin BuiltDNS
        /\ ~HostIsIP =>
              /\ props.ApiServerHost \in BuiltDNS
              /\ BuiltIPs = {}

\* C1 amended: a host that is an IP literal is the one IP SAN and is not
\* appended to the DNS SANs, which are the three names of the service, so the
\* host is among them only when it equals Service or Service.Namespace; any
\* other host is among the DNS SANs and there is no IP SAN.
C1_HostSanBucket ==
    Returned =>
        /\ HostIsIP =>
              /\ BuiltIPs = {ParseIP(props.ApiServerHost)}
              /\ RequestTemplate(csr).DNSNames =
                     <<props.Service, ServiceDotNamespace, FullServiceName>>
              /\ props.ApiServerHost \in BuiltDNS =>
                     props.ApiServerHost \in {props.Service, ServiceDotNamespace}
        /\ ~HostIsIP =>
              /\ props.ApiServerHost \in BuiltDNS
              /\ BuiltIPs = {}

\* C1 witness: a request was built for a Service that is itself the IP literal
\* given as ApiServerHost.
C1_Witness ==
    /\ Returned
    /\ HostIsIP
    /\ props.Service = props.ApiServerHost
    /\ props.ApiServerHost \in BuiltDNS
    /\ ParseIP(props.ApiServerHost) \in BuiltIPs

\* C2: with Service and Namespace non-empty, the DNS SANs of the built request
\* contain Service, Service.Namespace and Service.Namespace.svc, and the last
\* is what GenerateInClusterServiceName gives, for either fqdncn and any host.
C2_DnsSansContainServiceNames ==
    (Returned /\ props.Service # <<>> /\ props.Namespace # <<>>) =>
        /\ {props.Service, ServiceDotNamespace, FullServiceName} \subseteq BuiltDNS
        /\ GenerateInClusterServiceName(props) = FullServiceName

\* C2 witness: a request built with fqdncn set, for a non-empty Service and
\* Namespace and a host that is an IP literal.
C2_Witness ==
    /\ Returned
    /\ props.Service # <<>> /\ props.Namespace # <<>>
    /\ fqdncn /\ HostIsIP
    /\ Cardinality(BuiltDNS) = 3

C7_RequestObject ==
    Returned =>
        /\ csr.APIVersion = "certificates.k8s.io/v1beta1"
        /\ csr.Kind = "CertificateSigningRequest"
        /\ csr.Name = ServiceDotNamespace
               \o <<".", "c", "e", "r", "t", "-", "r", "e", "q", "u", "e", "s", "t">>
        /\ Len(csr.Groups) = 2
        /\ Range(csr.Groups) = {"system:masters", "system:authenticated"}
        /\ Len(csr.Usages) = 4
        /\ Range(csr.Usages) =
               {"digital signature", "key encipherment", "server auth", "client auth"}

\* C7 witness: a request returned for the second key with fqdncn set, carrying
\* the PEM block of the request.
C7_Witness ==
    /\ Returned /\ fqdncn /\ privateKey = "key2"
    /\ Decode(csr.Request).Type = "CERTIFICATE REQUEST"
    /\ Len(csr.Name) > Len(CertRequestSuffix) + 1

PairBlock == Decode(tlsPair.Certificate)
PairParses ==
    /\ ~tlsPair.nil
    /\ PairBlock.ok
    /\ PairBlock.Bytes.form = "cert"
Remaining == PairBlock.Bytes.NotAfter - readAt

\* C4: for a pair whose certificate decodes and parses, the call returns true
\* exactly when notAfter - now is less than 180 days: true with 179 days
\* left, false with 181 days left, false with exactly 180 days left.
C4_ReserveIs180Days ==
    (called /\ PairParses) =>
        /\ result = (Remaining < 180 * 24)
        /\ Remaining = 179 * 24 => result = TRUE
        /\ Remaining = 181 * 24 => result = FALSE
        /\ Remaining = 180 * 24 => result = FALSE

\* C4 witness: a call, after the clock has moved, on a certificate with
\* exactly 180 days left, which returned false.
C4_Witness ==
    /\ called /\ PairParses
    /\ readAt > 0
    /\ Remaining = 180 * 24
    /\ result = FALSE

\* C5: the call returns true for a nil pair and for a pair whose Certificate
\* fails PEM decoding or X.509 parsing, whatever the time and the PrivateKey.
C5_UnreadablePairIsUpdated ==
    (called /\ (tlsPair.nil \/ ~PairBlock.ok \/ PairBlock.Bytes.form # "cert")) =>
        result = TRUE

\* C5 witness: a call, after the clock has moved, on a pair that carries a
\* private key and a CERTIFICATE block whose bytes are no certificate.
C5_Witness ==
    /\ called /\ ~tlsPair.nil
    /\ readAt > 0
    /\ tlsPair.PrivateKey # <<>>
    /\ PairBlock.ok /\ PairBlock.Type = "CERTIFICATE"
    /\ PairBlock.Bytes.form = "garbage"
    /\ result = TRUE

\* C6: a pair whose Certificate is anything but a PEM block of type
\* CERTIFICATE is a parse failure, the call returns true for it, also when it
\* is a block of another type that carries a certificate which expires later
\* than in 180 days.
C6_OnlyCertificateBlocks ==
    (called /\ ~tlsPair.nil /\ ~(PairBlock.ok /\ PairBlock.Type = "CERTIFICATE")) =>
        result = TRUE

\* C10: with a clock that does not move backwards, once a call has returned
\* true for the pair, every later call on the unchanged pair returns true.
C10_RotationIsMonotone ==
    [][(called /\ result /\ called' /\ tlsPair' = tlsPair) => result']_vars

\* C10 witness: a call that returned true on a certificate one hour inside
\* the reserve, read after the clock had moved.
C10_Witness ==
    /\ called /\ PairParses /\ result
    /\ readAt > 0 /\ readAt = now
    /\ Remaining = 180 * 24 - 1

(***************************************************************************)
(* Concurrent callers: claim C9.                                           *)
(***************************************************************************)
\* What the invocation of caller c returns when it runs alone on its inputs.
RunAlone(c) ==
    IF op[c] = "TLSGeneratePrivateKey"
    THEN ret[c].key \in Keys /\ ret[c] = [NoResult EXCEPT !.key = ret[c].key]
    ELSE IF op[c] = "TLSPrivateKeyToPem"
    THEN ret[c] = [NoResult EXCEPT !.pem = TLSPrivateKeyToPem(arg0[c].key)]
    ELSE IF op[c] = "CertificateGenerateRequest"
    THEN \/ ret[c] = [NoResult EXCEPT !.err = TRUE]
         \/ ret[c] = [NoResult EXCEPT !.csr =
                CertificateGenerateRequest(arg0[c].key, arg0[c].props, arg0[c].fqdncn)]
    ELSE ret[c] = [NoResult EXCEPT !.should =
                       IsTLSPairShouldBeUpdated(arg0[c].pair, loc[c].t)]

\* C9: under every interleaving of invocations on distinct inputs, each
\* invocation returns what it returns when run alone, and none changes the
\* inputs it was given.
C9_InvocationsDoNotInterfere ==
    \A c \in Callers :
        /\ arg[c] = arg0[c]
        /\ cpc[c] = "done" => RunAlone(c)

\* C9 witness: two invocations of CertificateGenerateRequest on different
\* identities have both returned a request.
C9_Witness ==
    \E c, d \in Callers :
        /\ c # d
        /\ op[c] = "CertificateGenerateRequest" /\ op[d] = "CertificateGenerateRequest"
        /\ arg[c].props # arg[d].props
        /\ cpc[c] = "done" /\ cpc[d] = "done"
        /\ ~ret[c].err /\ ~ret[d].err
====
